---------------------------- MODULE Spec2Model ----------------------------
(***************************************************************************)
(* Model of the Automated Restocking Optimization Engine (warehouse.py).   *)
(*                                                                         *)
(* Spec      : Warehouse.simulate run day by day on a freshly built        *)
(*             warehouse, followed by a second build-and-simulate with the *)
(*             same seed (the loop of main.run_all).                       *)
(* SpecUnit  : direct calls of the public methods of InventoryItem,        *)
(*             SupplierAgent and of the ordering loop of Warehouse.        *)
(*                                                                         *)
(* Numbers.  Python floats are modelled by exact rationals: daily_demand   *)
(* is annual_demand/365, fill_rate is fill_pct/100, holding_cost is        *)
(* holding_num/holding_den and safety_factor is safety_pct/100.  All money  *)
(* amounts of the scenarios are whole numbers, so total_cost is exact.     *)
(***************************************************************************)
EXTENDS Integers, Sequences, FiniteSets, TLC

\* ------------------------------------------------------------------ bounds

\* Number of days a single-item scenario is simulated (simulate's `days`).
MaxDays == 3

\* Number of sample points a random draw ranges over (see Samples).
RawN == 3

\* Number of direct method calls explored by SpecUnit.
MaxCalls == 2

\* ------------------------------------------------------- program constants

DemandLow == 5
DemandHigh == 15
DaysPerYear == 365
StartDay == 1

\* Python's None, for an arrival day or a solver value that is absent.  A
\* present value v is the one-element sequence <<v>>.
None == << >>
Some(v) == << v >>
Val(o) == o[1]

\* --------------------------------------------------------------- arithmetic

Min(a, b) == IF a <= b THEN a ELSE b
Max(a, b) == IF a >= b THEN a ELSE b

\* math.ceil(n/d) for d > 0.
CeilDiv(n, d) == -((-n) \div d)

\* int(x) of the non-negative rational n/d: truncation.
TruncDiv(n, d) == n \div d

\* Python 3 round(n/d), d > 0: nearest integer, ties to the even neighbour.
RoundDiv(n, d) ==
    LET q == n \div d
        r == n % d
    IN  IF 2 * r < d THEN q
        ELSE IF 2 * r > d THEN q + 1
        ELSE IF q % 2 = 0 THEN q ELSE q + 1

\* round(sqrt(n/d)) for n >= 0, d > 0: the least q with sqrt(n/d) < q + 1/2,
\* i.e. 4n < (2q+1)^2 d; on an exact tie sqrt(n/d) = q - 1/2 the even
\* neighbour is taken. The least q is found by doubling an upper limit and
\* then halving the interval lo..hi that contains it.
RoundSqrtBelow(n, d, q) == 4 * n < (2 * q + 1) * (2 * q + 1) * d

RECURSIVE RoundSqrtLimit(_, _, _)
RoundSqrtLimit(n, d, hi) ==
    IF RoundSqrtBelow(n, d, hi) THEN hi ELSE RoundSqrtLimit(n, d, 2 * hi + 1)

RECURSIVE RoundSqrtFrom(_, _, _, _)
RoundSqrtFrom(n, d, lo, hi) ==
    IF lo = hi
    THEN IF lo > 0 /\ 4 * n = (2 * lo - 1) * (2 * lo - 1) * d /\ lo % 2 = 1
         THEN lo - 1 ELSE lo
    ELSE LET mid == (lo + hi) \div 2
         IN  IF RoundSqrtBelow(n, d, mid)
             THEN RoundSqrtFrom(n, d, lo, mid)
             ELSE RoundSqrtFrom(n, d, mid + 1, hi)

RoundSqrt(n, d) == RoundSqrtFrom(n, d, 0, RoundSqrtLimit(n, d, 0))

RECURSIVE SumSeq(_)
SumSeq(s) == IF s = << >> THEN 0 ELSE Head(s) + SumSeq(Tail(s))

Range(s) == { s[i] : i \in 1..Len(s) }


\* ---------------------------------------------------------------- scenarios
\* A scenario is one build_warehouse: the suppliers, the registered items in
\* registration order, the strategy and the run parameters.

\* SupplierAgent(name, min_order, max_supply_per_order, lead_time_range,
\* fill_rate = fill_pct/100).
Supplier(name, mo, ms, lo, hi, fp) ==
    [name |-> name, min_order |-> mo, max_supply_per_order |-> ms,
     lead_lo |-> lo, lead_hi |-> hi, fill_pct |-> fp]

\* InventoryItem(sku, name, initial_stock, annual_demand, unit_cost,
\* holding_cost = hn/hd, order_cost, max_capacity, supplier).
ItemCfg(sku, init, ad, uc, hn, hd, oc, cap, sup) ==
    [sku |-> sku, initial_stock |-> init, annual_demand |-> ad,
     unit_cost |-> uc, holding_num |-> hn, holding_den |-> hd,
     order_cost |-> oc, max_capacity |-> cap, supplier |-> sup]

EOQ == [kind |-> "EOQ"]
Heuristic(sp, w) == [kind |-> "Heuristic", safety_pct |-> sp, weeks |-> w]
LP(pen, pd, b) ==
    [kind |-> "LP", shortage_penalty |-> pen, planning_days |-> pd, budget |-> b]

Scenarios ==
    << \* 1: EOQ, one item, a supplier that caps and shrinks (fill 0.9) the
       \*    order and whose lead time ranges over three days.
       [strategy |-> EOQ,
        items |-> << ItemCfg("X1", 10, 365, 10, 1, 1, 10, 30,
                             Supplier("TestSup", 5, 20, 1, 3, 90)) >>,
        days |-> MaxDays, seeded |-> TRUE],
       \* 2: Heuristic(safety_factor 0.2, weeks 2), one item.
       [strategy |-> Heuristic(20, 2),
        items |-> << ItemCfg("X1", 6, 365, 5, 1, 2, 8, 20,
                             Supplier("TestSup", 10, 200, 1, 2, 100)) >>,
        days |-> MaxDays, seeded |-> TRUE],
       \* 3: LP(planning_days 10, no budget), two items on two suppliers
       \*    with different minimum order quantities, simulated for two days.
       [strategy |-> LP(200, 10, None),
        items |-> << ItemCfg("X1", 5, 365, 10, 1, 1, 10, 40,
                             Supplier("SlowSup", 20, 30, 1, 2, 100)),
                     ItemCfg("X2", 12, 400, 5, 1, 2, 8, 12,
                             Supplier("FastSup", 6, 9, 1, 2, 100)) >>,
        days |-> 2, seeded |-> TRUE],
       \* 4: EOQ, the item "Soap" of build_warehouse on FastSup, started with
       \*    a stock that the first day's demand brings to the reorder point.
       [strategy |-> EOQ,
        items |-> << ItemCfg("S1", 12, 1200, 10, 3, 2, 20, 1000,
                             Supplier("FastSup", 10, 500, 1, 3, 98)) >>,
        days |-> MaxDays, seeded |-> TRUE],
       \* 5: Heuristic, a supplier whose fill_rate 0.02 scales the planned
       \*    14 units to round(0.28) = 0.
       [strategy |-> Heuristic(20, 2),
        items |-> << ItemCfg("X1", 6, 365, 5, 1, 2, 8, 20,
                             Supplier("ThinSup", 10, 200, 1, 2, 2)) >>,
        days |-> MaxDays, seeded |-> TRUE],
       \* 6: Heuristic, a supplier that can deliver with lead time 0.
       [strategy |-> Heuristic(20, 2),
        items |-> << ItemCfg("X1", 6, 365, 5, 1, 2, 8, 20,
                             Supplier("NearSup", 10, 200, 0, 1, 100)) >>,
        days |-> MaxDays, seeded |-> TRUE] >>

\* ------------------------------------------------------------------- state

VARIABLES
    scn,        \* index of the scenario (configuration; never changes)
    solverMode, \* how the LP solver behaves on infeasible programs (never changes)
    run,        \* 1: first build-and-simulate, 2: the second one
    pc,         \* position inside simulate / the unit driver
    day,        \* simulate's loop variable `day`
    idx,        \* position of the per-item / per-plan-entry loop of a step
    items,      \* Warehouse.items: sku -> mutable InventoryItem fields
    incoming,   \* Warehouse.incoming: sku -> queue of [day, qty]
    demands,    \* simulate's day_demands: sku -> demand of the day
    plan,       \* the plan of the day: sequence of [sku, qty] (dict order)
    solver,     \* what the LP solver reported for the last LPStrategy.plan
    rng,        \* the process-wide random stream
    orderLog,   \* every SupplierAgent.place_order call made by the warehouse
    prev,       \* stock_history of every item at the end of the first run
    released,   \* sku -> the pairs _receive_arrivals passed to receive, and when
    call,       \* the last direct method call (SpecUnit)
    ncalls      \* number of direct method calls made (SpecUnit)

vars == << scn, solverMode, run, pc, day, idx, items, incoming, demands, plan, solver,
           rng, orderLog, prev, released, call, ncalls >>

Scn == Scenarios[scn]
Strategy == Scn.strategy
NItems == Len(Scn.items)
\* list(warehouse.items.keys()): the skus in registration order.
SKUs == [ i \in 1..NItems |-> Scn.items[i].sku ]
SkuSet == Range(SKUs)
Cfg(sku) == Scn.items[CHOOSE i \in 1..NItems : Scn.items[i].sku = sku]
Sup(sku) == Cfg(sku).supplier

\* ----------------------------------------------------------- InventoryItem

\* InventoryItem.__init__: the mutable fields.
NewItem(c) ==
    [stock |-> c.initial_stock,
     stock_history |-> << >>, demand_history |-> << >>,
     reorder_history |-> << >>, cost_history |-> << >>,
     total_ordered |-> 0, total_cost |-> 0, lost_sales |-> 0]

\* InventoryItem.sell: the item after the call, and (sold, lost).
SoldOf(it, qty) == Min(it.stock, qty)

Sell(it, qty) ==
    [it EXCEPT !.stock = it.stock - SoldOf(it, qty),
               !.lost_sales = it.lost_sales + (qty - SoldOf(it, qty))]

\* Mutant of Receive: the capacity clamp is forgotten.
ReceiveUnclamped(it, cap, qty) == [it EXCEPT !.stock = it.stock + qty]

\* Mutant of Receive: the units that do not fit are booked as lost sales.
ReceiveCountingOverflow(it, cap, qty) ==
    [it EXCEPT !.stock = it.stock + Min(qty, Max(0, cap - it.stock)),
               !.lost_sales = it.lost_sales + (qty - Min(qty, Max(0, cap - it.stock)))]

\* InventoryItem.receive: the accepted quantity and the item after the call.
AcceptedOf(it, cap, qty) == Min(qty, Max(0, cap - it.stock))

Receive(it, cap, qty) ==
    [it EXCEPT !.stock = it.stock + AcceptedOf(it, cap, qty)]

\* Mutant of AddCostForOrder: the fixed order_cost is not charged.
AddCostWithoutOrderCost(it, c, qty) ==
    IF qty <= 0 THEN it
    ELSE [it EXCEPT !.total_cost = it.total_cost + qty * c.unit_cost,
                    !.total_ordered = it.total_ordered + qty]

\* InventoryItem.add_cost_for_order.
AddCostForOrder(it, c, qty) ==
    IF qty <= 0 THEN it
    ELSE [it EXCEPT !.total_cost = it.total_cost + (c.order_cost + qty * c.unit_cost),
                    !.total_ordered = it.total_ordered + qty]

\* InventoryItem.record_day.
\* Mutant of RecordDay: reorder_history gets an entry only on a day with a
\* planned order.
RecordDayOrdersOnly(it, demand, requested) ==
    [it EXCEPT !.stock_history = Append(it.stock_history, it.stock),
               !.demand_history = Append(it.demand_history, demand),
               !.reorder_history = IF requested > 0
                                   THEN Append(it.reorder_history, requested)
                                   ELSE it.reorder_history,
               !.cost_history = Append(it.cost_history, it.total_cost)]

RecordDay(it, demand, requested) ==
    [it EXCEPT !.stock_history = Append(it.stock_history, it.stock),
               !.demand_history = Append(it.demand_history, demand),
               !.reorder_history = Append(it.reorder_history, requested),
               !.cost_history = Append(it.cost_history, it.total_cost)]

\* ----------------------------------------------------------- SupplierAgent

\* Mutant of Rejected: the minimum-order check is dropped.
RejectedOnlyNonPositive(sup, requested_qty) == requested_qty <= 0

\* The MOQ gate of SupplierAgent.place_order (the two early returns).
Rejected(sup, requested_qty) ==
    requested_qty <= 0 \/ requested_qty < sup.min_order

\* Mutant of AcceptedQty: the cap at max_supply_per_order is dropped.
AcceptedQtyUncapped(sup, requested_qty) == RoundDiv(requested_qty * sup.fill_pct, 100)

\* accepted = int(round(min(requested_qty, max_supply_per_order) * fill_rate))
AcceptedQty(sup, requested_qty) ==
    RoundDiv(Min(requested_qty, sup.max_supply_per_order) * sup.fill_pct, 100)

\* SupplierAgent.place_order with the lead time lt it draws: (accepted,
\* arrival), the arrival being None for a rejected order.
PlaceOrder(sup, requested_qty, d, lt) ==
    IF Rejected(sup, requested_qty)
    THEN [accepted |-> 0, arrival |-> None]
    ELSE [accepted |-> AcceptedQty(sup, requested_qty), arrival |-> Some(d + lt)]

\* SupplierAgent.min_order_qty / expected_lead_time_mean (twice the mean, to
\* stay in the integers).
MinOrderQty(sup) == sup.min_order
LeadTimeSum(sup) == sup.lead_lo + sup.lead_hi

\* ------------------------------------------------------------ random stream
\* The process-wide generator of module `random`.  The stream a seed
\* determines is revealed draw by draw: `tape` holds the draws made since
\* the stream was (re)started, each with the range it was asked for, and
\* `pos` is the next position.  After random.seed(seed) the same requests
\* get the same answers again; a request that differs from the recorded one
\* gets any value of its range and the rest of the tape is forgotten.

\* The values a draw random.randint(lo, hi) ranges over in the model: RawN
\* points of lo..hi, its two ends included.
Samples(lo, hi) == { lo + (r * (hi - lo)) \div (RawN - 1) : r \in 0..(RawN - 1) }

Replays(lo, hi) ==
    /\ rng.pos <= Len(rng.tape)
    /\ rng.tape[rng.pos].lo = lo
    /\ rng.tape[rng.pos].hi = hi

\* The possible results of random.randint(lo, hi) in the current state.
DrawSet(lo, hi) ==
    IF Replays(lo, hi) THEN { rng.tape[rng.pos].v } ELSE Samples(lo, hi)

\* The stream after random.randint(lo, hi) returned v.
Drawn(lo, hi, v) ==
    [tape |-> IF Replays(lo, hi) THEN rng.tape
              ELSE Append(SubSeq(rng.tape, 1, rng.pos - 1),
                          [lo |-> lo, hi |-> hi, v |-> v]),
     pos |-> rng.pos + 1]

\* Mutant of Seeded: simulate does not seed the stream.
NotSeeded(r, seeded) == r

\* `if seed is not None: random.seed(seed)`: the stream restarts.
Seeded(r, seeded) == IF seeded THEN [r EXCEPT !.pos = 1] ELSE r

\* --------------------------------------------------------------- strategies

EmptyMap == [ k \in {} |-> 0 ]

\* dict.get(key, default) on a function.
Get(f, k, default) == IF k \in DOMAIN f THEN f[k] ELSE default

\* EOQStrategy.plan, per item: q and the reorder point.
EOQQuantity(c) ==
    RoundSqrt(2 * c.annual_demand * c.order_cost * c.holding_den, c.holding_num)

\* Mutant of EOQReorderPoint: the product is truncated instead of rounded up.
EOQReorderPointFloor(c) ==
    TruncDiv(c.annual_demand * LeadTimeSum(c.supplier), 2 * DaysPerYear)

EOQReorderPoint(c) ==
    CeilDiv(c.annual_demand * LeadTimeSum(c.supplier), 2 * DaysPerYear)

EOQSkips(c) ==
    c.annual_demand <= 0 \/ c.order_cost <= 0 \/ c.holding_num <= 0

RECURSIVE EOQPlanFrom(_, _)
EOQPlanFrom(its, i) ==
    IF i > NItems THEN << >>
    ELSE LET sku == SKUs[i]
             c == Cfg(sku)
         IN  IF ~EOQSkips(c) /\ its[sku].stock <= EOQReorderPoint(c)
             THEN << [sku |-> sku, qty |-> EOQQuantity(c)] >> \o EOQPlanFrom(its, i + 1)
             ELSE EOQPlanFrom(its, i + 1)

EOQPlan(its) == EOQPlanFrom(its, 1)

\* Mutant of HeuristicThreshold: the safety stock is left out.
HeuristicThresholdNoSafety(c, st) == TruncDiv(c.annual_demand, DaysPerYear)

\* HeuristicStrategy.plan, per item: the threshold and the quantity.
HeuristicThreshold(c, st) ==
    TruncDiv(c.annual_demand, DaysPerYear)
      + CeilDiv(c.annual_demand * st.safety_pct, DaysPerYear * 100)

HeuristicQuantity(c, st) == RoundDiv(c.annual_demand * 7 * st.weeks, DaysPerYear)

RECURSIVE HeuristicPlanFrom(_, _, _)
HeuristicPlanFrom(its, st, i) ==
    IF i > NItems THEN << >>
    ELSE LET sku == SKUs[i]
             c == Cfg(sku)
         IN  IF its[sku].stock < HeuristicThreshold(c, st)
             THEN << [sku |-> sku, qty |-> HeuristicQuantity(c, st)] >>
                    \o HeuristicPlanFrom(its, st, i + 1)
             ELSE HeuristicPlanFrom(its, st, i + 1)

HeuristicPlan(its, st) == HeuristicPlanFrom(its, st, 1)

\* -- LPStrategy.plan.  Quantities of the linear program are rationals with
\* denominator 365 (daily_demand = annual_demand/365); Q365 is 365 * Q.

RECURSIVE QtyWithin(_, _)
QtyWithin(queue, limit) ==
    IF queue = << >> THEN 0
    ELSE (IF Head(queue).day <= limit THEN Head(queue).qty ELSE 0)
           + QtyWithin(Tail(queue), limit)

\* incoming_within: pending quantity arriving by day + planning_days.
IncomingWithin(inc, sku, d, st) ==
    QtyWithin(Get(inc, sku, << >>), d + st.planning_days)

\* Mutant of IndexAfterGet: the read is warehouse.incoming[sku], which makes
\* a defaultdict insert the missing key with an empty queue.
IndexAfterSubscript(inc, sku) ==
    [ k \in DOMAIN inc \cup {sku} |-> Get(inc, k, << >>) ]

\* The pending-arrivals index after warehouse.incoming.get(sku, []):
\* dict.get returns the default without inserting the key.
IndexAfterGet(inc, sku) == inc

\* The index after LPStrategy.plan has read the pending arrivals of every
\* item, in registration order.
RECURSIVE IndexAfterLPPlan(_, _)
IndexAfterLPPlan(inc, i) ==
    IF i > NItems THEN inc
    ELSE IndexAfterLPPlan(IndexAfterGet(inc, SKUs[i]), i + 1)

\* The capacity bound ub of the constraint Q[sku] <= ub.
LPUpperBound(its, sku) ==
    Min(Sup(sku).max_supply_per_order, Max(0, Cfg(sku).max_capacity - its[sku].stock))

\* 365 times the least Q >= 0 that satisfies the demand-coverage constraint
\* stock + Q + incoming_within - S >= demand_horizon with S >= 0 (S = 0).
LPNeed365(its, inc, sku, d, st) ==
    Max(0, Cfg(sku).annual_demand * st.planning_days
             - DaysPerYear * (its[sku].stock + IncomingWithin(inc, sku, d, st)))

RECURSIVE LPCost365(_, _, _, _, _)
LPCost365(its, inc, d, st, i) ==
    IF i > NItems THEN 0
    ELSE Cfg(SKUs[i]).unit_cost * LPNeed365(its, inc, SKUs[i], d, st)
           + LPCost365(its, inc, d, st, i + 1)

\* Whether the constraints (coverage, capacity, optional budget) have a solution.
LPFeasible(its, inc, d, st) ==
    /\ \A sku \in SkuSet : LPNeed365(its, inc, sku, d, st) <= DaysPerYear * LPUpperBound(its, sku)
    /\ st.budget # None => LPCost365(its, inc, d, st, 1) <= DaysPerYear * Val(st.budget)

\* The behaviours of the solver on an infeasible program, whose variable
\* values are not specified: no values at all, the needed quantities cut to
\* the capacity bound, or the needed quantities.  The solver is a function
\* of the program it is given, so one behaviour holds throughout a run.
SolverModes == { "novalues", "clipped", "needed" }

\* prob.solve(...): what the solver reports.  A feasible program has one
\* optimum (every cost coefficient of the scenarios is positive): the least
\* Q of every sku and no shortage.
SolverOutcome(its, inc, d, st, mode) ==
    IF LPFeasible(its, inc, d, st)
    THEN [status |-> "Optimal",
          values |-> [sku \in SkuSet |-> Some(LPNeed365(its, inc, sku, d, st))]]
    ELSE [status |-> "Infeasible",
          values |-> [sku \in SkuSet |->
                        CASE mode = "novalues" -> None
                          [] mode = "clipped" ->
                               Some(Min(LPNeed365(its, inc, sku, d, st),
                                        DaysPerYear * LPUpperBound(its, sku)))
                          [] mode = "needed" ->
                               Some(LPNeed365(its, inc, sku, d, st))]]

NoSolve == [status |-> "none", values |-> EmptyMap]

\* The supplier whose minimum the rounding loop (lines 138-144) compares
\* with: `item` is still the last item of the constraint loop (line 120).
LPMinOrderSupplier(sku) == Sup(SKUs[NItems])

\* q_final of one sku from the solver's value qval.
LPFinalQty(sku, qval) ==
    LET q == IF qval # None THEN RoundDiv(Val(qval), DaysPerYear) ELSE 0
        m == MinOrderQty(LPMinOrderSupplier(sku))
    IN  IF q > 0 /\ q < m THEN m ELSE q

\* The plan LPStrategy.plan returns for the solver outcome `out`.
LPPlan(out) ==
    IF NItems = 0 THEN << >>
    ELSE [ i \in 1..NItems |-> [sku |-> SKUs[i], qty |-> LPFinalQty(SKUs[i], out.values[SKUs[i]])] ]

\* plan.get(sku, 0) on the plan of the day.
PlanGet(pl, sku) ==
    IF \E i \in 1..Len(pl) : pl[i].sku = sku
    THEN pl[CHOOSE i \in 1..Len(pl) : pl[i].sku = sku].qty
    ELSE 0

\* ---------------------------------------------------------------- Warehouse

\* Warehouse.__init__ followed by register_item for every item of the
\* scenario (build_warehouse).
FreshItems == [ sku \in SkuSet |-> NewItem(Cfg(sku)) ]

\* Mutant of Release: the loop pops while the queue is not empty, without
\* looking at the day of its head.
RECURSIVE ReleaseAnyDay(_, _, _, _)
ReleaseAnyDay(queue, it, cap, d) ==
    IF queue # << >>
    THEN LET r == ReleaseAnyDay(Tail(queue), Receive(it, cap, Head(queue).qty), cap, d)
         IN  [queue |-> r.queue, item |-> r.item, out |-> << Head(queue) >> \o r.out]
    ELSE [queue |-> queue, item |-> it, out |-> << >>]

\* The while loop of _receive_arrivals for one sku: pops the head of the
\* queue while its day has come and credits it to the item; out lists the
\* pairs it passed to receive, in that order.
RECURSIVE Release(_, _, _, _)
Release(queue, it, cap, d) ==
    IF queue # << >> /\ Head(queue).day <= d
    THEN LET r == Release(Tail(queue), Receive(it, cap, Head(queue).qty), cap, d)
         IN  [queue |-> r.queue, item |-> r.item, out |-> << Head(queue) >> \o r.out]
    ELSE [queue |-> queue, item |-> it, out |-> << >>]

\* Warehouse._receive_arrivals(d): the warehouse after the call.
ReceiveArrivalsOf(its, inc, d) ==
    [items |-> [ sku \in DOMAIN its |->
                   IF sku \in DOMAIN inc
                   THEN Release(inc[sku], its[sku], Cfg(sku).max_capacity, d).item
                   ELSE its[sku] ],
     incoming |-> [ sku \in DOMAIN inc |->
                      IF sku \in DOMAIN its
                      THEN Release(inc[sku], its[sku], Cfg(sku).max_capacity, d).queue
                      ELSE inc[sku] ]]

\* The pairs _receive_arrivals(d) passes to item.receive, per sku, each
\* marked with the day d of the call, appended to those passed before.
ReleasedBy(rel, its, inc, d) ==
    [ sku \in DOMAIN rel |->
        IF sku \in DOMAIN inc /\ sku \in DOMAIN its
        THEN LET out == Release(inc[sku], its[sku], Cfg(sku).max_capacity, d).out
             IN  rel[sku] \o [ i \in 1..Len(out) |->
                                 [day |-> out[i].day, qty |-> out[i].qty, on |-> d] ]
        ELSE rel[sku] ]

NoneReleased == [ sku \in SkuSet |-> << >> ]

\* Mutant of Enqueue: the queue of the sku is replaced by the new pair.
EnqueueOverwriting(inc, sku, arrival, qty) ==
    [ k \in DOMAIN inc \cup {sku} |->
        IF k = sku THEN << [day |-> arrival, qty |-> qty] >> ELSE inc[k] ]

\* self.incoming[sku].append((arrival, accepted)) on the defaultdict.
Enqueue(inc, sku, arrival, qty) ==
    [ k \in DOMAIN inc \cup {sku} |->
        IF k = sku THEN Append(Get(inc, sku, << >>), [day |-> arrival, qty |-> qty])
        ELSE inc[k] ]

\* Whether the body of the loop of _place_orders reaches place_order for
\* the entry (sku, req), and whether place_order then draws a lead time.
CallsSupplier(its, sku, req) == req > 0 /\ sku \in DOMAIN its
\* Mutant of DrawsLeadTime: place_order draws only when the scaled quantity
\* is positive.
DrawsLeadTimeWhenFilled(its, sku, req) ==
    /\ CallsSupplier(its, sku, req)
    /\ ~Rejected(Sup(sku), req)
    /\ AcceptedQty(Sup(sku), req) > 0

DrawsLeadTime(its, sku, req) ==
    CallsSupplier(its, sku, req) /\ ~Rejected(Sup(sku), req)

\* Mutant of Booked: the accepted quantity is received at once instead of
\* being queued until its arrival day.
BookedOnTheSpot(its, inc, sku, res) ==
    IF res.accepted > 0 /\ res.arrival # None
    THEN [items |-> [its EXCEPT ![sku] =
                       Receive(AddCostForOrder(its[sku], Cfg(sku), res.accepted),
                               Cfg(sku).max_capacity, res.accepted)],
          incoming |-> inc]
    ELSE [items |-> its, incoming |-> inc]

\* The body of the loop of _place_orders after place_order returned res
\* (lines 268-270): the warehouse after it.
Booked(its, inc, sku, res) ==
    IF res.accepted > 0 /\ res.arrival # None
    THEN [items |-> [its EXCEPT ![sku] = AddCostForOrder(its[sku], Cfg(sku), res.accepted)],
          incoming |-> Enqueue(inc, sku, Val(res.arrival), res.accepted)]
    ELSE [items |-> its, incoming |-> inc]

\* The record of one place_order call made by the warehouse.
Logged(sku, req, d, res) ==
    [sku |-> sku, day |-> d, requested |-> req,
     accepted |-> res.accepted, arrival |-> res.arrival]

\* sum(item.lost_sales ...) and sum(sum(item.demand_history) ...) over the
\* items, in registration order.
RECURSIVE TotalLostFrom(_, _)
TotalLostFrom(its, i) ==
    IF i > NItems THEN 0 ELSE its[SKUs[i]].lost_sales + TotalLostFrom(its, i + 1)

RECURSIVE TotalDemandFrom(_, _)
TotalDemandFrom(its, i) ==
    IF i > NItems THEN 0
    ELSE SumSeq(its[SKUs[i]].demand_history) + TotalDemandFrom(its, i + 1)

\* Mutant of ComputeServiceLevel: the guard for zero demand is missing.
ServiceLevelUnguarded(its) ==
    [num |-> TotalDemandFrom(its, 1) - TotalLostFrom(its, 1),
     den |-> TotalDemandFrom(its, 1)]

\* Warehouse.compute_service_level: the fraction num/den it returns
\* (1.0 is 1/1).
ComputeServiceLevel(its) ==
    IF TotalDemandFrom(its, 1) <= 0 THEN [num |-> 1, den |-> 1]
    ELSE [num |-> TotalDemandFrom(its, 1) - TotalLostFrom(its, 1),
          den |-> TotalDemandFrom(its, 1)]

NoCall == [op |-> "none"]

\* ------------------------------------------------------------- Spec: actions

Init ==
    /\ scn \in 1..Len(Scenarios)
    /\ solverMode \in (IF Strategy.kind = "LP" THEN SolverModes ELSE { "novalues" })
    /\ run = 1
    /\ pc = "start"
    /\ day = StartDay
    /\ idx = 1
    /\ items = FreshItems
    /\ incoming = EmptyMap
    /\ demands = EmptyMap
    /\ plan = << >>
    /\ solver = NoSolve
    /\ rng = [tape |-> << >>, pos |-> 1]
    /\ orderLog = << >>
    /\ prev = EmptyMap
    /\ released = NoneReleased
    /\ call = NoCall
    /\ ncalls = 0

\* simulate(days, start_day = 1, seed): lines 274-276.
SimulateStart ==
    /\ pc = "start"
    /\ rng' = Seeded(rng, Scn.seeded)
    /\ day' = StartDay
    /\ pc' = IF Scn.days > 0 THEN "arrivals" ELSE "done"
    /\ UNCHANGED << scn, solverMode, released, run, idx, items, incoming, demands, plan, solver,
                    orderLog, prev, call, ncalls >>

\* Step 1 of a day: self._receive_arrivals(day); then day_demands = {}.
ReceiveArrivals ==
    /\ pc = "arrivals"
    /\ LET w == ReceiveArrivalsOf(items, incoming, day)
       IN  /\ items' = w.items
           /\ incoming' = w.incoming
    /\ released' = ReleasedBy(released, items, incoming, day)
    /\ demands' = EmptyMap
    /\ idx' = 1
    /\ pc' = IF NItems > 0 THEN "demand" ELSE "plan"
    /\ UNCHANGED << scn, solverMode, run, day, plan, solver, rng, orderLog, prev, call, ncalls >>

\* Step 2, one iteration of the loop over self.items.values(): one demand
\* draw and one sell.
SellStep ==
    /\ pc = "demand"
    /\ idx <= NItems
    /\ LET sku == SKUs[idx]
       IN  \E demand \in DrawSet(DemandLow, DemandHigh) :
              /\ rng' = Drawn(DemandLow, DemandHigh, demand)
              /\ items' = [items EXCEPT ![sku] = Sell(items[sku], demand)]
              /\ demands' = [ k \in DOMAIN demands \cup {sku} |->
                                IF k = sku THEN demand ELSE demands[k] ]
    /\ idx' = idx + 1
    /\ pc' = IF idx = NItems THEN "plan" ELSE "demand"
    /\ UNCHANGED << scn, solverMode, released, run, day, incoming, plan, solver, orderLog, prev, call, ncalls >>

\* Step 3: plan = self.strategy.plan(self, day).
PlanStep ==
    /\ pc = "plan"
    /\ solver' = IF Strategy.kind = "LP" /\ NItems > 0
                 THEN SolverOutcome(items, incoming, day, Strategy, solverMode)
                 ELSE NoSolve
    /\ plan' = CASE Strategy.kind = "EOQ" -> EOQPlan(items)
                 [] Strategy.kind = "Heuristic" -> HeuristicPlan(items, Strategy)
                 [] Strategy.kind = "LP" -> LPPlan(solver')
    /\ idx' = 1
    /\ pc' = IF Len(plan') > 0 THEN "orders" ELSE "record"
    /\ incoming' = IF Strategy.kind = "LP" /\ NItems > 0
                   THEN IndexAfterLPPlan(incoming, 1)
                   ELSE incoming
    /\ UNCHANGED << scn, solverMode, released, run, day, items, demands, rng, orderLog, prev,
                    call, ncalls >>

\* Step 4, one iteration of the loop of _place_orders(plan, day).
OrderStep ==
    /\ pc = "orders"
    /\ idx <= Len(plan)
    /\ LET sku == plan[idx].sku
           req == plan[idx].qty
       IN  IF ~CallsSupplier(items, sku, req)
           THEN UNCHANGED << items, incoming, rng, orderLog >>
           ELSE \E lt \in (IF DrawsLeadTime(items, sku, req)
                           THEN DrawSet(Sup(sku).lead_lo, Sup(sku).lead_hi)
                           ELSE { 0 }) :
                   LET res == PlaceOrder(Sup(sku), req, day, lt)
                       w == Booked(items, incoming, sku, res)
                   IN  /\ rng' = IF DrawsLeadTime(items, sku, req)
                                 THEN Drawn(Sup(sku).lead_lo, Sup(sku).lead_hi, lt)
                                 ELSE rng
                       /\ items' = w.items
                       /\ incoming' = w.incoming
                       /\ orderLog' = Append(orderLog, Logged(sku, req, day, res))
    /\ idx' = idx + 1
    /\ pc' = IF idx = Len(plan) THEN "record" ELSE "orders"
    /\ UNCHANGED << scn, solverMode, released, run, day, demands, plan, solver, prev, call, ncalls >>

\* Step 5: record_day for every item; then the next day, or the end.
RecordStep ==
    /\ pc = "record"
    /\ items' = [ sku \in DOMAIN items |->
                    RecordDay(items[sku], Get(demands, sku, 0), PlanGet(plan, sku)) ]
    /\ IF day + 1 < StartDay + Scn.days
       THEN /\ day' = day + 1
            /\ pc' = "arrivals"
       ELSE /\ day' = day
            /\ pc' = "done"
    /\ idx' = 1
    /\ UNCHANGED << scn, solverMode, released, run, incoming, demands, plan, solver, rng, orderLog, prev,
                    call, ncalls >>

\* The next round of the loop of run_all: build_warehouse again (same
\* configuration and strategy) and simulate with the same seed.  The random
\* stream is process-wide and is not rebuilt.
Rerun ==
    /\ pc = "done"
    /\ run = 1
    /\ prev' = [ sku \in DOMAIN items |-> items[sku].stock_history ]
    /\ run' = 2
    /\ items' = FreshItems
    /\ incoming' = EmptyMap
    /\ demands' = EmptyMap
    /\ plan' = << >>
    /\ solver' = NoSolve
    /\ orderLog' = << >>
    /\ released' = NoneReleased
    /\ day' = StartDay
    /\ idx' = 1
    /\ pc' = "start"
    /\ UNCHANGED << scn, solverMode, rng, call, ncalls >>

Next ==
    \/ SimulateStart
    \/ ReceiveArrivals
    \/ SellStep
    \/ PlanStep
    \/ OrderStep
    \/ RecordStep
    \/ Rerun

Spec == Init /\ [][Next]_vars

\* --------------------------------------------------------- SpecUnit: actions
\* Direct calls of the public methods on a freshly built warehouse, with
\* arguments that simulate never passes (negative and zero quantities,
\* quantities below the supplier's minimum).

UnitQtys == { -3, 0, 4, 25 }
UnitRequests == { -3, 0, 4, 7, 15, 25 }
UnitDays == { 1, 3 }

InitUnit ==
    /\ scn \in 1..Len(Scenarios)
    /\ solverMode = "novalues"
    /\ run = 1
    /\ pc = "unit"
    /\ day = StartDay
    /\ idx = 1
    /\ items = FreshItems
    /\ incoming = EmptyMap
    /\ demands = EmptyMap
    /\ plan = << >>
    /\ solver = NoSolve
    /\ rng = [tape |-> << >>, pos |-> 1]
    /\ orderLog = << >>
    /\ prev = EmptyMap
    /\ released = NoneReleased
    /\ call = NoCall
    /\ ncalls = 0

\* The record of a direct call: the method, its arguments, what it returned,
\* whether it raised, and the warehouse before the call.
Called(op, sku, arg, d, ret) ==
    [op |-> op, sku |-> sku, arg |-> arg, day |-> d, ret |-> ret, raised |-> FALSE,
     preItems |-> items, preIncoming |-> incoming]

UnitFrame ==
    /\ pc = "unit"
    /\ ncalls < MaxCalls
    /\ ncalls' = ncalls + 1
    /\ UNCHANGED << scn, solverMode, run, pc, day, idx, demands, plan, solver, prev >>

\* item.sell(qty)
USell ==
    /\ UnitFrame
    /\ \E sku \in SkuSet, qty \in UnitQtys :
          /\ items' = [items EXCEPT ![sku] = Sell(items[sku], qty)]
          /\ call' = Called("sell", sku, qty, day,
                            << SoldOf(items[sku], qty), qty - SoldOf(items[sku], qty) >>)
    /\ UNCHANGED << incoming, rng, orderLog, released >>

\* item.receive(qty)
UReceive ==
    /\ UnitFrame
    /\ \E sku \in SkuSet, qty \in UnitQtys :
          /\ items' = [items EXCEPT ![sku] = Receive(items[sku], Cfg(sku).max_capacity, qty)]
          /\ call' = Called("receive", sku, qty, day,
                            AcceptedOf(items[sku], Cfg(sku).max_capacity, qty))
    /\ UNCHANGED << incoming, rng, orderLog, released >>

\* item.supplier.place_order(sku, requested_qty, day)
UPlaceOrder ==
    /\ UnitFrame
    /\ \E sku \in SkuSet, req \in UnitRequests, d \in UnitDays :
          \E lt \in (IF ~Rejected(Sup(sku), req)
                     THEN DrawSet(Sup(sku).lead_lo, Sup(sku).lead_hi) ELSE { 0 }) :
             /\ rng' = IF ~Rejected(Sup(sku), req)
                       THEN Drawn(Sup(sku).lead_lo, Sup(sku).lead_hi, lt) ELSE rng
             /\ call' = Called("place_order", sku, req, d, PlaceOrder(Sup(sku), req, d, lt))
    /\ UNCHANGED << items, incoming, orderLog, released >>

\* warehouse._place_orders({sku: req}, day)
UPlaceOrders ==
    /\ UnitFrame
    /\ UNCHANGED released
    /\ \E sku \in SkuSet, req \in UnitRequests, d \in UnitDays :
          IF ~CallsSupplier(items, sku, req)
          THEN /\ call' = Called("_place_orders", sku, req, d, None)
               /\ UNCHANGED << items, incoming, rng, orderLog >>
          ELSE \E lt \in (IF DrawsLeadTime(items, sku, req)
                          THEN DrawSet(Sup(sku).lead_lo, Sup(sku).lead_hi)
                          ELSE { 0 }) :
                  LET res == PlaceOrder(Sup(sku), req, d, lt)
                      w == Booked(items, incoming, sku, res)
                  IN  /\ rng' = IF DrawsLeadTime(items, sku, req)
                                THEN Drawn(Sup(sku).lead_lo, Sup(sku).lead_hi, lt)
                                ELSE rng
                      /\ items' = w.items
                      /\ incoming' = w.incoming
                      /\ orderLog' = Append(orderLog, Logged(sku, req, d, res))
                      /\ call' = Called("_place_orders", sku, req, d, None)

\* warehouse._receive_arrivals(day)
UReceiveArrivals ==
    /\ UnitFrame
    /\ \E d \in UnitDays :
          LET w == ReceiveArrivalsOf(items, incoming, d)
          IN  /\ items' = w.items
              /\ incoming' = w.incoming
              /\ released' = ReleasedBy(released, items, incoming, d)
              /\ call' = Called("_receive_arrivals", "", 0, d, None)
    /\ UNCHANGED << rng, orderLog >>

NextUnit ==
    \/ USell
    \/ UReceive
    \/ UPlaceOrder
    \/ UPlaceOrders
    \/ UReceiveArrivals

SpecUnit == InitUnit /\ [][NextUnit]_vars

\* ------------------------------------------------------------------ claims

Abs(x) == IF x < 0 THEN -x ELSE x

\* The successful supplier orders of a sku among the logged place_order
\* calls: those with a positive accepted quantity.
RECURSIVE SumAccepted(_, _)
SumAccepted(log, sku) ==
    IF log = << >> THEN 0
    ELSE (IF Head(log).sku = sku /\ Head(log).accepted > 0 THEN Head(log).accepted ELSE 0)
           + SumAccepted(Tail(log), sku)

RECURSIVE SumCharged(_, _)
SumCharged(log, sku) ==
    IF log = << >> THEN 0
    ELSE (IF Head(log).sku = sku /\ Head(log).accepted > 0
          THEN Cfg(sku).order_cost + Head(log).accepted * Cfg(sku).unit_cost ELSE 0)
           + SumCharged(Tail(log), sku)

\* C1: at every step of simulate every item's stock lies in
\* [0, max_capacity], and so does every entry of its stock_history.
C1_StockWithinCapacity ==
    \A sku \in DOMAIN items :
        /\ 0 <= items[sku].stock
        /\ items[sku].stock <= Cfg(sku).max_capacity
        /\ \A i \in 1..Len(items[sku].stock_history) :
              /\ 0 <= items[sku].stock_history[i]
              /\ items[sku].stock_history[i] <= Cfg(sku).max_capacity

\* C1 witness: a day was recorded with the stock at zero after demand
\* exceeded it, and later arrivals filled the item up to its capacity although
\* more than the capacity had been ordered.
C1_Witness ==
    \E sku \in DOMAIN items :
        /\ items[sku].stock = Cfg(sku).max_capacity
        /\ items[sku].lost_sales > 0
        /\ items[sku].total_ordered > Cfg(sku).max_capacity
        /\ \E i \in 1..Len(items[sku].stock_history) : items[sku].stock_history[i] = 0

\* C2 (as claimed): immediately after _receive_arrivals(d) no pending arrival
\* with arrival_day <= d remains in any queue.
C2_AllDueArrivalsReleased ==
    (pc = "demand" /\ idx = 1) =>
        \A sku \in DOMAIN incoming :
            \A i \in 1..Len(incoming[sku]) : incoming[sku][i].day > day

\* C3: total_ordered is the sum of the accepted quantities of the successful
\* supplier orders of the item, and total_cost the sum of
\* order_cost + accepted_qty * unit_cost over the same orders.
C3_TotalsMatchAcceptedOrders ==
    pc # "unit" =>
        \A sku \in DOMAIN items :
            /\ items[sku].total_ordered = SumAccepted(orderLog, sku)
            /\ items[sku].total_cost = SumCharged(orderLog, sku)

\* C3 witness: an item with two successful orders, each accepted for less
\* than was requested.
C3_Witness ==
    \E i, j \in 1..Len(orderLog) :
        /\ i < j
        /\ orderLog[i].sku = orderLog[j].sku
        /\ orderLog[i].accepted > 0 /\ orderLog[i].accepted < orderLog[i].requested
        /\ orderLog[j].accepted > 0 /\ orderLog[j].accepted < orderLog[j].requested
        /\ items[orderLog[i].sku].total_ordered = orderLog[i].accepted + orderLog[j].accepted

\* C4: place_order returns (0, None) whenever requested_qty <= 0 or
\* requested_qty < min_order, and the ordering step leaves the queue and
\* the item's total_cost and total_ordered unchanged for such an order.
C4_RejectedOrderChangesNothing ==
    (call.op \in {"place_order", "_place_orders"}
        /\ (call.arg <= 0 \/ call.arg < Sup(call.sku).min_order)) =>
        /\ call.op = "place_order" => call.ret = [accepted |-> 0, arrival |-> None]
        /\ call.op = "_place_orders" =>
              /\ incoming = call.preIncoming
              /\ items[call.sku].total_cost = call.preItems[call.sku].total_cost
              /\ items[call.sku].total_ordered = call.preItems[call.sku].total_ordered

\* C4 witness: the ordering step was given a positive quantity below the
\* supplier's minimum while an earlier order was pending.
C4_Witness ==
    /\ call.op = "_place_orders"
    /\ call.arg > 0
    /\ call.arg < Sup(call.sku).min_order
    /\ call.sku \in DOMAIN incoming
    /\ Len(incoming[call.sku]) > 0

\* C5: for an order that passes the MOQ gate, accepted_qty is
\* min(requested_qty, max_supply_per_order) * fill_rate rounded to a nearest
\* integer (at most max_supply_per_order when fill_rate <= 1) and
\* day + low <= arrival_day <= day + high.
C5_AcceptedQuantityAndArrival ==
    (call.op = "place_order" /\ call.arg > 0 /\ call.arg >= Sup(call.sku).min_order) =>
        LET sup == Sup(call.sku)
            capped == IF call.arg <= sup.max_supply_per_order
                      THEN call.arg ELSE sup.max_supply_per_order
        IN  /\ 2 * Abs(100 * call.ret.accepted - capped * sup.fill_pct) <= 100
            /\ sup.fill_pct <= 100 => call.ret.accepted <= sup.max_supply_per_order
            /\ call.ret.arrival # None
            /\ call.day + sup.lead_lo <= Val(call.ret.arrival)
            /\ Val(call.ret.arrival) <= call.day + sup.lead_hi

\* C5 witness: an order above the supplier's cap was accepted for less than
\* the cap (fill_rate below 1) with the longest lead time.
C5_Witness ==
    /\ call.op = "place_order"
    /\ call.arg > Sup(call.sku).max_supply_per_order
    /\ call.ret.accepted > 0
    /\ call.ret.accepted < Sup(call.sku).max_supply_per_order
    /\ call.ret.arrival = Some(call.day + Sup(call.sku).lead_hi)
    /\ Sup(call.sku).lead_hi > Sup(call.sku).lead_lo

\* C6 (as claimed): sell and receive with a negative quantity raise and
\* leave the item unchanged.
C6_NegativeQuantityRejected ==
    (call.op \in {"sell", "receive"} /\ call.arg < 0) =>
        /\ call.raised
        /\ items[call.sku].stock = call.preItems[call.sku].stock
        /\ items[call.sku].lost_sales = call.preItems[call.sku].lost_sales

\* C7 (as claimed): when the solver reports the program infeasible,
\* LPStrategy.plan fails; the day never goes on with a returned plan.
C7_InfeasibleIsReported ==
    solver.status = "Infeasible" => pc = "failed"

\* C8 (as claimed): every quantity of the plan LPStrategy.plan returns is 0
\* or at least the min_order of the sku's own supplier (checked for the
\* plans made from an optimal solution).
C8_PlanMeetsOwnMinimum ==
    (Strategy.kind = "LP" /\ pc = "orders" /\ solver.status = "Optimal") =>
        \A i \in 1..Len(plan) :
            plan[i].qty = 0 \/ plan[i].qty >= Sup(plan[i].sku).min_order

\* C9 (as claimed): every quantity of the plan LPStrategy.plan returns from
\* a solution of the constraints is at most
\* min(max_supply_per_order, max(0, max_capacity - stock)).
C9_PlanWithinCapacityBound ==
    (Strategy.kind = "LP" /\ pc = "orders" /\ solver.status = "Optimal") =>
        \A i \in 1..Len(plan) :
            LET sku == plan[i].sku
                room == IF Cfg(sku).max_capacity - items[sku].stock > 0
                        THEN Cfg(sku).max_capacity - items[sku].stock ELSE 0
            IN  /\ plan[i].qty <= Sup(sku).max_supply_per_order
                /\ plan[i].qty <= room

\* C10: the second simulate, on a freshly built warehouse with the same
\* configuration, strategy and seed, produces day by day the stock_history
\* of the first: a prefix of it while it runs, and the same sequence at its end.
C10_SameSeedSameStockHistory ==
    run = 2 =>
        \A sku \in DOMAIN items :
            /\ Len(items[sku].stock_history) <= Len(prev[sku])
            /\ \A i \in 1..Len(items[sku].stock_history) :
                  items[sku].stock_history[i] = prev[sku][i]
            /\ pc = "done" => Len(items[sku].stock_history) = Len(prev[sku])

\* C10 witness: the second run is over, and its history shows both sales and
\* a received arrival.
C10_Witness ==
    /\ run = 2
    /\ pc = "done"
    /\ \E sku \in DOMAIN items :
          \E i, j \in 1..Len(items[sku].stock_history) :
              /\ i + 1 < j
              /\ items[sku].stock_history[i] > items[sku].stock_history[i + 1]
              /\ items[sku].stock_history[j] > items[sku].stock_history[i + 1]

\* A day boundary of simulate: before the first day, between two days, or
\* after the last one.
DayBoundary == pc \in {"start", "arrivals", "done"}

\* C11: after any number of simulated days compute_service_level() lies in
\* [0, 1]: the lost sales of all items never exceed the recorded demand of
\* all items and days, and the result is exactly 1.0 when that demand is zero.
C11_ServiceLevelInUnitInterval ==
    DayBoundary =>
        LET sl == ComputeServiceLevel(items)
            lost == SumSeq([ i \in 1..NItems |-> items[SKUs[i]].lost_sales ])
            demand == SumSeq([ i \in 1..NItems |-> SumSeq(items[SKUs[i]].demand_history) ])
        IN  /\ 0 <= lost
            /\ lost <= demand
            /\ sl.den > 0
            /\ 0 <= sl.num
            /\ sl.num <= sl.den
            /\ demand = 0 => sl = [num |-> 1, den |-> 1]
            /\ demand > 0 => sl.num * demand = (demand - lost) * sl.den

\* C11 witness: after the last day some demand was lost and some was served.
C11_Witness ==
    /\ pc = "done"
    /\ ComputeServiceLevel(items).num > 0
    /\ ComputeServiceLevel(items).num < ComputeServiceLevel(items).den

\* C12: plan(warehouse, day) of the EOQ, Heuristic and LP strategies does not
\* mutate the warehouse: the items (stock, counters, histories) and the
\* pending-arrivals index, its set of SKU keys included, are the same after
\* the planning step as before it.
C12_PlanLeavesWarehouseUnchanged ==
    [][ pc = "plan" => (items' = items /\ incoming' = incoming) ]_vars

\* C12 witness: LP planning has just run while one SKU had pending arrivals
\* and another had no key in the index.
C12_Witness ==
    /\ Strategy.kind = "LP"
    /\ pc = "orders"
    /\ idx = 1
    /\ DOMAIN incoming # {}
    /\ SkuSet \ DOMAIN incoming # {}
    /\ \E sku \in DOMAIN incoming : incoming[sku] # << >>

\* The planning step of the current day has run and its plan is still in
\* force; the stock is the one plan() saw, since placing orders does not
\* change it.
Planned == pc \in {"orders", "record"}

InPlan(sku) == \E i \in 1..Len(plan) : plan[i].sku = sku

\* C13: for an item with positive D, S and H the EOQ strategy plans an order
\* iff stock <= R with R = ceil(daily_demand * mean lead time), that is iff
\* stock - 1 < D/365 * (lo + hi)/2; the quantity is Q = round(sqrt(2DS/H)),
\* the integer within 1/2 of the square root, whatever the stock (179 for
\* D = 1200, S = 20, H = 1.5); and the SKU is absent when stock exceeds R.
C13_EOQPlansAtReorderPoint ==
    (Strategy.kind = "EOQ" /\ Planned) =>
        \A sku \in SkuSet :
            LET c == Cfg(sku)
                stock == items[sku].stock
                low == (stock - 1) * 2 * DaysPerYear
                         < c.annual_demand * (c.supplier.lead_lo + c.supplier.lead_hi)
                q == PlanGet(plan, sku)
                x == 8 * c.annual_demand * c.order_cost * c.holding_den
            IN  (c.annual_demand > 0 /\ c.order_cost > 0 /\ c.holding_num > 0) =>
                    /\ InPlan(sku) <=> low
                    /\ InPlan(sku) =>
                          /\ (2 * q - 1) * (2 * q - 1) * c.holding_num <= x
                          /\ x <= (2 * q + 1) * (2 * q + 1) * c.holding_num
                          /\ (c.annual_demand = 1200 /\ c.order_cost = 20
                                /\ c.holding_num = 3 /\ c.holding_den = 2) => q = 179

\* C13 witness: the stock is exactly the reorder point 7 of the item with
\* D = 1200 and the order of 179 is planned.
C13_Witness ==
    /\ Strategy.kind = "EOQ"
    /\ Planned
    /\ \E sku \in SkuSet : /\ Cfg(sku).annual_demand = 1200
                           /\ items[sku].stock = 7
                           /\ PlanGet(plan, sku) = 179

\* C13, second witness: the stock exceeds the reorder point and nothing is
\* planned.
C13_WitnessAbove ==
    /\ Strategy.kind = "EOQ"
    /\ pc = "record"
    /\ plan = << >>
    /\ \E sku \in SkuSet : items[sku].stock > EOQReorderPoint(Cfg(sku))

\* floor(daily_demand) + ceil(daily_demand * safety_factor), written with the
\* floored division of the integers.
C14_Threshold(c, st) ==
    (c.annual_demand \div DaysPerYear)
      - ((0 - c.annual_demand * st.safety_pct) \div (DaysPerYear * 100))

\* q is round(daily_demand * 7 * weeks): an integer within 1/2 of it.
C14_IsQuantity(c, st, q) ==
    /\ (2 * q - 1) * DaysPerYear <= 2 * c.annual_demand * 7 * st.weeks
    /\ 2 * c.annual_demand * 7 * st.weeks <= (2 * q + 1) * DaysPerYear

RECURSIVE SumQty(_)
SumQty(q) == IF q = << >> THEN 0 ELSE Head(q).qty + SumQty(Tail(q))

\* The (arrival_day, quantity) pairs of the orders of sku that the warehouse
\* enqueued, in the order in which they were placed.
RECURSIVE PlacedPairs(_, _)
PlacedPairs(log, sku) ==
    IF log = << >> THEN << >>
    ELSE (IF Head(log).sku = sku /\ Head(log).accepted > 0 /\ Head(log).arrival # None
          THEN << [day |-> Val(Head(log).arrival), qty |-> Head(log).accepted] >>
          ELSE << >>) \o PlacedPairs(Tail(log), sku)

Pending(sku) == Get(incoming, sku, << >>)

\* C15: at every day boundary (and between the steps of a day) an item's
\* total_ordered is the sum of the quantities already released to receive
\* plus the sum of the quantities still in the SKU's pending queue: every
\* accepted order was enqueued exactly once and is consumed at most once.
C15_OrderedIsReleasedPlusPending ==
    \A sku \in SkuSet :
        /\ items[sku].total_ordered = SumQty(released[sku]) + SumQty(Pending(sku))
        /\ Len(released[sku]) + Len(Pending(sku)) = Len(PlacedPairs(orderLog, sku))

\* C15 witness: at a day boundary one order of the SKU has been released and
\* another is still pending.
C15_Witness ==
    /\ DayBoundary
    /\ \E sku \in SkuSet : released[sku] # << >> /\ Pending(sku) # << >>

\* C20: _receive_arrivals(d) passes to receive only pairs whose arrival_day
\* is <= d, so nothing is credited before its arrival day; and the arrivals
\* of one SKU are released in the order in which their orders were placed:
\* the released pairs followed by the pending ones are the placed ones.
C20_NoEarlyReleaseInPlacementOrder ==
    \A sku \in SkuSet :
        /\ \A i \in 1..Len(released[sku]) : released[sku][i].day <= released[sku][i].on
        /\ [ i \in 1..Len(released[sku]) |->
               [day |-> released[sku][i].day, qty |-> released[sku][i].qty] ]
             \o Pending(sku) = PlacedPairs(orderLog, sku)
        /\ \A i, j \in 1..Len(released[sku]) : i < j => released[sku][i].on <= released[sku][j].on

\* C20 witness: two orders of a SKU, placed on different days, were released
\* by the same call, the one placed first passed to receive first.
C20_Witness ==
    \E sku \in SkuSet :
        /\ Len(released[sku]) >= 2
        /\ released[sku][1].on = released[sku][2].on
        /\ released[sku][1].day <= released[sku][1].on
        /\ \E i, j \in 1..Len(orderLog) :
              /\ i < j
              /\ orderLog[i].day < orderLog[j].day
              /\ orderLog[i].arrival = Some(released[sku][1].day)
              /\ orderLog[j].arrival = Some(released[sku][2].day)

\* The number of days of the current simulate call that are fully recorded.
CompletedDays == IF pc = "done" THEN Scn.days ELSE day - StartDay

IsPrefix(a, b) == Len(a) <= Len(b) /\ a = SubSeq(b, 1, Len(a))

\* The state part of C16.
C16_Histories ==
    \A sku \in SkuSet :
        LET it == items[sku]
        IN  /\ Len(it.stock_history) = CompletedDays
            /\ Len(it.demand_history) = CompletedDays
            /\ Len(it.reorder_history) = CompletedDays
            /\ Len(it.cost_history) = CompletedDays
            /\ (DayBoundary /\ CompletedDays > 0) =>
                  /\ it.stock_history[CompletedDays] = it.stock
                  /\ it.reorder_history[CompletedDays] = PlanGet(plan, sku)
            /\ \A i \in 1..Len(orderLog) :
                  (orderLog[i].sku = sku /\ orderLog[i].day - StartDay + 1 <= CompletedDays) =>
                      it.reorder_history[orderLog[i].day - StartDay + 1] = orderLog[i].requested

\* The step part of C16: a step of the run only appends to the histories,
\* and the recording step appends the stock of that moment.
C16_Appends ==
    run' = run =>
        \A sku \in SkuSet :
            /\ IsPrefix(items[sku].stock_history, items'[sku].stock_history)
            /\ IsPrefix(items[sku].demand_history, items'[sku].demand_history)
            /\ IsPrefix(items[sku].reorder_history, items'[sku].reorder_history)
            /\ IsPrefix(items[sku].cost_history, items'[sku].cost_history)
            /\ pc = "record" =>
                  items'[sku].stock_history = Append(items[sku].stock_history, items[sku].stock)

\* C16: after simulate(days) each of stock_history, demand_history,
\* reorder_history and cost_history has grown by exactly `days` entries (one
\* per completed day throughout); stock_history[d] is the stock at the end of
\* day d; and reorder_history[d] is the quantity planned on day d, also when
\* the supplier rejected or reduced the order.
C16_OneEntryPerDay == [] C16_Histories /\ [][ C16_Appends ]_vars

\* C16 witness: the run is over and an order that the supplier rejected or
\* reduced is recorded with its planned quantity.
C16_Witness ==
    /\ pc = "done"
    /\ \E i \in 1..Len(orderLog) :
          /\ orderLog[i].accepted < orderLog[i].requested
          /\ items[orderLog[i].sku].reorder_history[orderLog[i].day - StartDay + 1]
               = orderLog[i].requested
          /\ Len(items[orderLog[i].sku].reorder_history) = Scn.days

\* The days on which the enqueued orders of sku were placed, in the order of
\* PlacedPairs.
RECURSIVE PlacedDays(_, _)
PlacedDays(log, sku) ==
    IF log = << >> THEN << >>
    ELSE (IF Head(log).sku = sku /\ Head(log).accepted > 0 /\ Head(log).arrival # None
          THEN << Head(log).day >> ELSE << >>) \o PlacedDays(Tail(log), sku)

StockOf(its) == [ sku \in DOMAIN its |-> its[sku].stock ]

\* The step part of C17: what each step of a day may change and which step
\* follows it.
C17_Steps ==
    /\ pc = "arrivals" =>
          /\ pc' \in {"demand", "plan"}
          /\ day' = day
          /\ \A sku \in SkuSet : items'[sku].stock >= items[sku].stock
    /\ pc = "demand" =>
          /\ pc' \in {"demand", "plan"}
          /\ day' = day
          /\ released' = released /\ incoming' = incoming
          /\ \A sku \in SkuSet : items'[sku].stock <= items[sku].stock
    /\ pc = "plan" =>
          /\ pc' \in {"orders", "record"}
          /\ day' = day
          /\ DOMAIN demands = SkuSet
          /\ StockOf(items') = StockOf(items)
    /\ pc = "orders" =>
          /\ pc' \in {"orders", "record"}
          /\ day' = day
          /\ plan' = plan
          /\ released' = released
          /\ StockOf(items') = StockOf(items)
    /\ pc = "record" =>
          /\ pc' \in {"arrivals", "done"}
          /\ pc' = "arrivals" => day' = day + 1
          /\ StockOf(items') = StockOf(items)
    /\ pc' = "plan" => pc \in {"arrivals", "demand"}

\* The state part of C17: an arrival is released on a later day than the one
\* on which its order was placed.
C17_ReleasedAfterPlacement ==
    \A sku \in SkuSet :
        \A i \in 1..Len(released[sku]) :
            PlacedDays(orderLog, sku)[i] < released[sku][i].on

\* C17: within a day the steps run in the order arrivals, demand and sales,
\* planning, ordering, recording: arrivals released on day d are in stock
\* before the demand of day d is sold; plan runs exactly once per day, after
\* every item's sale, and the stock does not change from then to the end of
\* the day; an order placed on day d is not credited to stock on day d.
C17_FixedStepOrder == [] C17_ReleasedAfterPlacement /\ [][ C17_Steps ]_vars

\* C17 witness: an order placed with lead time 0 was released by the arrival
\* step of the next day and part of it has been sold on that day.
C17_Witness ==
    /\ pc = "plan"
    /\ \E sku \in SkuSet :
          \E i \in 1..Len(released[sku]) :
              /\ released[sku][i].day = PlacedDays(orderLog, sku)[i]
              /\ released[sku][i].on = day
              /\ day = PlacedDays(orderLog, sku)[i] + 1
              /\ items[sku].stock > 0
              /\ items[sku].stock < released[sku][i].qty

\* The place_order calls of a log that passed the supplier's gate
\* (requested_qty > 0 and >= min_order), and those that were enqueued.
RECURSIVE PastGate(_)
PastGate(log) ==
    IF log = << >> THEN << >>
    ELSE (IF Head(log).requested > 0
             /\ Head(log).requested >= Sup(Head(log).sku).min_order
          THEN << Head(log) >> ELSE << >>) \o PastGate(Tail(log))

RECURSIVE EnqueuedOf(_)
EnqueuedOf(log) ==
    IF log = << >> THEN << >>
    ELSE (IF Head(log).accepted > 0 /\ Head(log).arrival # None
          THEN << Head(log) >> ELSE << >>) \o EnqueuedOf(Tail(log))

\* The lead-time draws of the calls of log made on day d, one per call, in
\* the order of the calls.
RECURSIVE LeadDraws(_, _)
LeadDraws(log, d) ==
    IF log = << >> THEN << >>
    ELSE (IF Head(log).day = d
          THEN << [lo |-> Sup(Head(log).sku).lead_lo,
                   hi |-> Sup(Head(log).sku).lead_hi,
                   v |-> Val(Head(log).arrival) - d] >>
          ELSE << >>) \o LeadDraws(Tail(log), d)

\* The draws of the n-th completed day: the recorded demand of every item in
\* registration order, then the lead times of the calls of log on that day.
DrawsOfDay(log, n) ==
    [ k \in 1..NItems |-> [lo |-> DemandLow, hi |-> DemandHigh,
                           v |-> items[SKUs[k]].demand_history[n]] ]
      \o LeadDraws(log, StartDay + n - 1)

RECURSIVE DrawsOfDays(_, _)
DrawsOfDays(log, n) ==
    IF n = 0 THEN << >> ELSE DrawsOfDays(log, n - 1) \o DrawsOfDay(log, n)

\* The draws of the day in progress: the demands drawn so far, then the lead
\* times of the calls of log made today.
SoldToday == IF pc = "demand" THEN idx - 1
             ELSE IF pc \in {"plan", "orders", "record"} THEN NItems ELSE 0

DrawsToday(log) ==
    IF pc \in {"demand", "plan", "orders", "record"}
    THEN [ k \in 1..SoldToday |-> [lo |-> DemandLow, hi |-> DemandHigh,
                                   v |-> demands[SKUs[k]]] ]
           \o LeadDraws(log, day)
    ELSE << >>

\* The draws taken from the stream since simulate seeded it.
DrawsTaken == SubSeq(rng.tape, 1, rng.pos - 1)

InRun == pc \in {"arrivals", "demand", "plan", "orders", "record", "done"}

\* C18 as stated: on every day the draws are one demand draw per registered
\* item, in registration order, then one lead-time draw per order that ends
\* up enqueued, in plan-iteration order; an order that is not enqueued takes
\* no draw, one whose quantity rounds to zero after fill_rate included.
C18_OneLeadDrawPerEnqueuedOrder ==
    InRun => DrawsTaken = DrawsOfDays(EnqueuedOf(orderLog), CompletedDays)
                            \o DrawsToday(EnqueuedOf(orderLog))

\* C18, amended: on every day the draws are one demand draw per registered
\* item, in registration order, then one lead-time draw per order that
\* passes the supplier's gate (requested_qty > 0 and >= min_order), in
\* plan-iteration order; an order whose quantity rounds to zero after
\* fill_rate scaling takes its draw although it is not enqueued.
C18_OneLeadDrawPerOrderPastGate ==
    InRun => DrawsTaken = DrawsOfDays(PastGate(orderLog), CompletedDays)
                            \o DrawsToday(PastGate(orderLog))

\* C18 witness: an order passed the gate, was scaled to 0 and not enqueued,
\* and the stream holds its lead-time draw after the day's demand draw.
C18_Witness ==
    /\ pc = "record"
    /\ PastGate(orderLog) # << >>
    /\ EnqueuedOf(orderLog) = << >>
    /\ rng.pos - 1 = NItems * (CompletedDays + 1) + Len(PastGate(orderLog))
    /\ rng.tape[rng.pos - 1].lo = Sup(orderLog[Len(orderLog)].sku).lead_lo
    /\ orderLog[Len(orderLog)].accepted = 0

\* min(qty, max(0, room)), written out by cases.
C19_Fits(qty, room) == IF room <= 0 THEN 0 ELSE IF qty <= room THEN qty ELSE room

\* The pairs that the last _receive_arrivals call popped from the queue of
\* sku: those released since the call started.
PoppedByCall(sku) ==
    SubSeq(call.preIncoming[sku], 1,
           Len(call.preIncoming[sku]) - Len(incoming[sku]))

\* C19: receive(qty) for qty >= 0 increases stock by exactly
\* min(qty, max(0, max_capacity - stock)), returns that amount and changes
\* nothing else (total_cost, total_ordered, lost_sales, the histories, the
\* other items and the pending queues are unchanged); and when
\* _receive_arrivals passes arrivals to receive, the units beyond capacity
\* are discarded: the popped pairs are gone from the queue, nothing is put
\* back, and the stock rose by what fitted only.
C19_ReceiveClampsAndDiscards ==
    /\ (call.op = "receive" /\ call.arg >= 0) =>
          LET pre == call.preItems[call.sku]
              fits == C19_Fits(call.arg, Cfg(call.sku).max_capacity - pre.stock)
          IN  /\ call.ret = fits
              /\ items[call.sku] = [pre EXCEPT !.stock = pre.stock + fits]
              /\ \A sku \in SkuSet \ {call.sku} : items[sku] = call.preItems[sku]
              /\ incoming = call.preIncoming
    /\ call.op = "_receive_arrivals" =>
          /\ DOMAIN incoming = DOMAIN call.preIncoming
          /\ \A sku \in SkuSet \ DOMAIN incoming : items[sku] = call.preItems[sku]
          /\ \A sku \in DOMAIN incoming :
               LET pre == call.preItems[sku]
                   popped == PoppedByCall(sku)
               IN  /\ Len(incoming[sku]) <= Len(call.preIncoming[sku])
                   /\ call.preIncoming[sku] = popped \o incoming[sku]
                   /\ items[sku] =
                        [pre EXCEPT !.stock = pre.stock
                            + C19_Fits(SumQty(popped), Cfg(sku).max_capacity - pre.stock)]

\* C19 witness: a direct receive of more units than fit, part of which was
\* accepted.
C19_Witness ==
    /\ call.op = "receive"
    /\ call.ret > 0
    /\ call.ret < call.arg
    /\ items[call.sku].stock = Cfg(call.sku).max_capacity

\* C19, second witness: _receive_arrivals released an arrival larger than
\* the room left and the item is full, the queue empty.
C19_WitnessArrival ==
    /\ call.op = "_receive_arrivals"
    /\ \E sku \in DOMAIN incoming :
          /\ incoming[sku] = << >>
          /\ SumQty(call.preIncoming[sku]) > Cfg(sku).max_capacity - call.preItems[sku].stock
          /\ items[sku].stock = Cfg(sku).max_capacity
          /\ call.preItems[sku].stock < Cfg(sku).max_capacity

============================================================================
